---- MODULE Spec2Model ----
(***************************************************************************)
(* Model of create_database.py: create_football_database() loads           *)
(* Data/receiving.csv and Data/roster.csv with pandas, casts the mapped    *)
(* columns to int64, and replaces the tables `receiving` and `roster` of   *)
(* football_data.db.                                                       *)
(*                                                                         *)
(* A CSV cell is a token [k, v]:                                           *)
(*   k = "int"  : the text of the integer v                                *)
(*   k = "dec"  : a decimal literal worth v halves (v = 1 is 0.5, v = 4    *)
(*                is 2.0, v = -3 is -1.5)                                  *)
(*   k = "na"   : an empty cell                                            *)
(*   k = "text" : non-numeric text; v identifies the text                  *)
(*   k = "bool" : True (v = 1) or False (v = 0)                            *)
(* A DataFrame value is [t, v, lit]:                                       *)
(*   t = "int" (int64 v), "float" (v halves), "nan", "bool",               *)
(*   t = "str" (the literal of a token of kind lit and payload v).         *)
(* A stored (SQLite) value is [t, v, lit] with t in                        *)
(*   "int", "real" (v halves), "text", "null".                             *)
(***************************************************************************)
EXTENDS Integers, Sequences, FiniteSets, TLC

\* ---------------------------------------------------------------- bounds
MaxRows == 2
MaxRuns == 2

\* ------------------------------------------------------------- constants
db_path == "football_data.db"
receiving_csv == "Data/receiving.csv"
roster_csv == "Data/roster.csv"

\* the columns the code casts with astype('int64'), in the order of the code
ReceivingIntCols == <<"#", "GP", "NO", "YDS", "TD", "Long", "PlayerID">>
RosterIntCols == <<"id", "number">>

\* the header rows of the two input files (spec section 3 / section 6)
ReceivingHeader == <<"#", "GP", "NO", "YDS", "AVG", "TD", "Long", "AVG/G", "PlayerID">>
RosterHeader == <<"id", "number", "height", "weight", "name", "academic_class",
                  "hometown", "photo_url", "profile_url">>

\* ------------------------------------------------------------- utilities
Range(s) == { s[i] : i \in DOMAIN s }

Tok(k, v) == [k |-> k, v |-> v]
Val(t, v, lit) == [t |-> t, v |-> v, lit |-> lit]
NaN == Val("nan", 0, "")

\* the column c of a sequence of rows, as a sequence of cells
Column(rows, c) == [i \in DOMAIN rows |-> rows[i][c]]

\* ---------------------------------------------------- pandas.read_csv
\* dtype inference of one column from its tokens
InferDtype(toks) ==
    LET ks == { toks[i].k : i \in DOMAIN toks } IN
    IF ks = {} THEN "object"
    ELSE IF ks = {"int"} THEN "int64"
    ELSE IF ks \subseteq {"int", "dec", "na"} THEN "float64"
    ELSE IF ks = {"bool"} THEN "bool"
    ELSE "object"

\* the value read_csv stores for a token of a column whose tokens have the
\* kinds ks: an object column keeps the literals as strings, except that a
\* column of only booleans and empty cells keeps the booleans
ParseCell(tok, dtype, ks) ==
    IF dtype = "int64" THEN Val("int", tok.v, "")
    ELSE IF dtype = "float64" THEN
        IF tok.k = "na" THEN NaN
        ELSE IF tok.k = "int" THEN Val("float", 2 * tok.v, "")
        ELSE Val("float", tok.v, "")
    ELSE IF dtype = "bool" THEN Val("bool", tok.v, "")
    ELSE IF tok.k = "na" THEN NaN
    ELSE IF ks \subseteq {"bool", "na"} THEN Val("bool", tok.v, "")
    ELSE Val("str", tok.v, tok.k)

NoDF == [loaded |-> FALSE, cols |-> <<>>, dtypes |-> [c \in {} |-> ""], rows |-> <<>>]

read_csv(file) ==
    LET names == Range(file.cols)
        dt == [c \in names |-> InferDtype(Column(file.rows, c))]
        kinds == [c \in names |-> { file.rows[i][c].k : i \in DOMAIN file.rows }]
    IN [loaded |-> TRUE,
        cols |-> file.cols,
        dtypes |-> dt,
        rows |-> [i \in DOMAIN file.rows |->
                    [c \in names |-> ParseCell(file.rows[i][c], dt[c], kinds[c])]]]

\* ---------------------------------------------------- Series.astype('int64')
\* truncation toward zero of a float given in halves
TruncHalves(h) == IF h >= 0 THEN h \div 2 ELSE -((-h) \div 2)

\* a cast that takes a missing value for a number
CastableCell_nan(x) ==
    \/ x.t \in {"int", "float", "bool", "nan"}
    \/ x.t = "str" /\ x.lit = "int"

\* can one value be converted to int64
CastableCell(x) ==
    \/ x.t \in {"int", "float", "bool"}
    \/ x.t = "str" /\ x.lit = "int"

CastCell(x) ==
    IF x.t = "float" THEN Val("int", TruncHalves(x.v), "")
    ELSE Val("int", x.v, "")

\* a cast that fills the missing values of the whole frame with zero first
AstypeInt_fillna(df, c) ==
    LET filled == [i \in DOMAIN df.rows |->
                     [d \in DOMAIN df.rows[i] |->
                        IF df.rows[i][d].t = "nan" THEN Val("float", 0, "") ELSE df.rows[i][d]]]
    IN
    IF c \notin Range(df.cols) THEN
        [ok |-> FALSE, exc |-> [type |-> "KeyError", arg |-> c], df |-> df]
    ELSE IF \E i \in DOMAIN df.rows : filled[i][c].t \notin {"int", "float", "bool"} THEN
        [ok |-> FALSE, exc |-> [type |-> "ValueError", arg |-> c], df |-> df]
    ELSE
        [ok |-> TRUE, exc |-> [type |-> "none", arg |-> ""],
         df |-> [df EXCEPT !.dtypes[c] = "int64",
                           !.rows = [i \in DOMAIN df.rows |->
                                       [filled[i] EXCEPT ![c] =
                                           IF filled[i][c].t = "float"
                                           THEN Val("int", filled[i][c].v \div 2, "")
                                           ELSE Val("int", filled[i][c].v, "")]]]]

\* df[c] = df[c].astype('int64'): KeyError when the column is absent,
\* ValueError when a value cannot be converted, else the column is replaced
\* in place
AstypeInt(df, c) ==
    IF c \notin Range(df.cols) THEN
        [ok |-> FALSE, exc |-> [type |-> "KeyError", arg |-> c], df |-> df]
    ELSE IF \E i \in DOMAIN df.rows : ~CastableCell(df.rows[i][c]) THEN
        [ok |-> FALSE, exc |-> [type |-> "ValueError", arg |-> c], df |-> df]
    ELSE
        [ok |-> TRUE, exc |-> [type |-> "none", arg |-> ""],
         df |-> [df EXCEPT !.dtypes[c] = "int64",
                           !.rows = [i \in DOMAIN df.rows |->
                                       [df.rows[i] EXCEPT ![c] = CastCell(df.rows[i][c])]]]]

\* the casts of the code, one after the other, stopping at the first that raises
RECURSIVE AstypeAll(_, _)
AstypeAll(df, cs) ==
    IF cs = <<>> THEN [ok |-> TRUE, exc |-> [type |-> "none", arg |-> ""], df |-> df]
    ELSE LET r == AstypeInt(df, Head(cs)) IN
         IF r.ok THEN AstypeAll(r.df, Tail(cs)) ELSE r

\* ---------------------------------------------------- DataFrame.to_sql
SqlType(dtype) ==
    IF dtype \in {"int64", "bool"} THEN "INTEGER"
    ELSE IF dtype = "float64" THEN "REAL"
    ELSE "TEXT"

SqlValue(x) ==
    IF x.t = "nan" THEN Val("null", 0, "")
    ELSE IF x.t \in {"int", "bool"} THEN Val("int", x.v, "")
    ELSE IF x.t = "float" THEN Val("real", x.v, "")
    ELSE Val("text", x.v, x.lit)

NoTable == [exists |-> FALSE, cols |-> <<>>, rows |-> <<>>]

\* the table CREATE TABLE + INSERT build from a frame
TableOf(df) ==
    [exists |-> TRUE,
     cols |-> [j \in DOMAIN df.cols |-> [name |-> df.cols[j], type |-> SqlType(df.dtypes[df.cols[j]])]],
     rows |-> [i \in DOMAIN df.rows |-> [c \in Range(df.cols) |-> SqlValue(df.rows[i][c])]]]

\* if_exists='append': the rows are added to the table when it is present
to_sql_append(df, old) ==
    IF old.exists THEN [old EXCEPT !.rows = old.rows \o TableOf(df).rows] ELSE TableOf(df)

\* a table that is present is left as it is
to_sql_keep(df, old) ==
    IF old.exists THEN old ELSE TableOf(df)

\* if_exists='replace', index=False: drop the table when present, recreate it
to_sql(df, old) == TableOf(df)

\* what a to_sql that raises can leave behind: nothing done yet, the old
\* table dropped, or the new table created and the insert rolled back
to_sql_failed(df, old) ==
    { old, NoTable, [TableOf(df) EXCEPT !.rows = <<>>] }

\* ---------------------------------------------------------------- inputs
\* row i of a well-formed receiving.csv; a player without receptions has an
\* empty AVG and AVG/G
ReceivingRow(i) ==
    [c \in Range(ReceivingHeader) |->
        CASE c = "#" -> Tok("int", 10 + i)
          [] c = "GP" -> Tok("int", 8)
          [] c = "NO" -> Tok("int", i - 1)
          [] c = "YDS" -> Tok("int", 3 * (i - 1))
          [] c = "AVG" -> IF i = 1 THEN Tok("na", 0) ELSE Tok("dec", 6)
          [] c = "TD" -> Tok("int", 0)
          [] c = "Long" -> Tok("int", 2 * (i - 1))
          [] c = "AVG/G" -> IF i = 1 THEN Tok("na", 0) ELSE Tok("dec", 1)
          [] OTHER -> Tok("int", 500 + i)]

\* row i of a well-formed roster.csv; the second player has no weight
RosterRow(i) ==
    [c \in Range(RosterHeader) |->
        CASE c = "id" -> Tok("int", 500 + i)
          [] c = "number" -> Tok("int", 10 + i)
          [] c = "height" -> Tok("text", 64)
          [] c = "weight" -> IF i = 2 THEN Tok("na", 0) ELSE Tok("int", 200 + i)
          [] c = "photo_url" -> Tok("na", 0)
          [] OTHER -> Tok("text", i)]

\* the cells a file may hold in place of a well-formed one: an empty cell,
\* text, -1.5, 2.0 and True
ProbeTokens ==
    { Tok("na", 0), Tok("text", 99), Tok("dec", -3), Tok("dec", 4), Tok("bool", 1) }

MissingFile == [exists |-> FALSE, cols |-> <<>>, rows |-> <<>>]

WellFormed(header, n, Row(_)) ==
    [exists |-> TRUE, cols |-> header, rows |-> [i \in 1..n |-> Row(i)]]

\* a well-formed file with one cell replaced
Probed(f, i, c, tok) == [f EXCEPT !.rows[i][c] = tok]

\* a file with one more column, and a file without its last column
WithExtraColumn(f) ==
    [f EXCEPT !.cols = Append(f.cols, "notes"),
              !.rows = [i \in DOMAIN f.rows |->
                          [c \in Range(f.cols) \cup {"notes"} |->
                              IF c = "notes" THEN Tok("text", i) ELSE f.rows[i][c]]]]

WithoutLastColumn(f) ==
    LET cs == SubSeq(f.cols, 1, Len(f.cols) - 1) IN
    [f EXCEPT !.cols = cs,
              !.rows = [i \in DOMAIN f.rows |-> [c \in Range(cs) |-> f.rows[i][c]]]]

ReceivingFiles ==
    { WellFormed(ReceivingHeader, n, ReceivingRow) : n \in 0..MaxRows }
RosterFiles ==
    { WellFormed(RosterHeader, n, RosterRow) : n \in 0..MaxRows }

\* a well-formed file with its last row ill-formed in one cell, or with one
\* more column
Variants(f) ==
    { Probed(f, Len(f.rows), c, tok) : c \in IF f.rows = <<>> THEN {} ELSE Range(f.cols),
                                       tok \in ProbeTokens }
      \cup { WithExtraColumn(f) }

\* the pairs of input files of a run: both well-formed, or one of them
\* missing, ill-formed in one cell or with another header
InputFiles ==
    { [receiving |-> r, roster |-> o] : r \in ReceivingFiles, o \in RosterFiles }
    \cup { [receiving |-> v, roster |-> WellFormed(RosterHeader, 1, RosterRow)] :
             v \in UNION { Variants(r) : r \in ReceivingFiles }
                   \cup { MissingFile, WithoutLastColumn(WellFormed(ReceivingHeader, 1, ReceivingRow)) } }
    \cup { [receiving |-> WellFormed(ReceivingHeader, 1, ReceivingRow), roster |-> v] :
             v \in UNION { Variants(o) : o \in RosterFiles }
                   \cup { MissingFile, WithoutLastColumn(WellFormed(RosterHeader, 1, RosterRow)) } }
    \cup { [receiving |-> MissingFile, roster |-> MissingFile] }

\* what football_data.db may hold before the first run: nothing, or a
\* `receiving` table of another schema and row count and a `roster` table
\* with the rows of another season
OldTable(names, n) ==
    [exists |-> TRUE,
     cols |-> [j \in DOMAIN names |-> [name |-> names[j], type |-> "TEXT"]],
     rows |-> [i \in 1..n |-> [c \in Range(names) |-> Val("text", 1000 + i, "text")]]]

PriorStores ==
    { [receiving |-> NoTable, roster |-> NoTable],
      [receiving |-> OldTable(<<"#", "old">>, MaxRows + 1),
       roster |-> OldTable(RosterHeader, MaxRows + 1)] }

\* ----------------------------------------------------------------- state
VARIABLES
    files,            \* the two input files on disk
    store,            \* the committed tables of football_data.db
    pc,               \* the statement create_football_database() is at
    receiving_df,     \* local receiving_df
    roster_df,        \* local roster_df
    conn,             \* local conn: "none", "open" or "closed"
    receiving_count,  \* local receiving_count (-1 before it is assigned)
    roster_count,     \* local roster_count (-1 before it is assigned)
    out,              \* the lines printed by the run so far
    err,              \* the exception the run ended with
    steps,            \* the steps the run has completed, in order
    runs,             \* the number of runs started
    store0,           \* the store when the run started
    lastStore,        \* the store and the input files at the end of the
    lastFiles         \* last run that succeeded

vars == <<files, store, pc, receiving_df, roster_df, conn, receiving_count,
          roster_count, out, err, steps, runs, store0, lastStore, lastFiles>>

NoErr == [type |-> "none", arg |-> ""]
NoStore == [receiving |-> NoTable, roster |-> NoTable]
NoFiles == [receiving |-> MissingFile, roster |-> MissingFile]

Init ==
    /\ files \in InputFiles
    /\ store \in PriorStores
    /\ pc = "check"
    /\ receiving_df = NoDF
    /\ roster_df = NoDF
    /\ conn = "none"
    /\ receiving_count = -1
    /\ roster_count = -1
    /\ out = <<>>
    /\ err = NoErr
    /\ steps = <<>>
    /\ runs = 1
    /\ store0 = store
    /\ lastStore = NoStore
    /\ lastFiles = NoFiles

\* raise exc out of the function: the run is over
Raise(exc) ==
    /\ pc' = "failed"
    /\ err' = exc

\* only the first input is checked
CheckInputs_receivingOnly ==
    /\ pc = "check"
    /\ IF ~files.receiving.exists THEN
           /\ Raise([type |-> "FileNotFoundError", arg |-> receiving_csv])
           /\ UNCHANGED <<out, steps>>
       ELSE
           /\ pc' = "parse_receiving"
           /\ out' = Append(out, "Reading CSV files...")
           /\ steps' = Append(steps, "validate")
           /\ UNCHANGED err
    /\ UNCHANGED <<files, store, receiving_df, roster_df, conn, receiving_count,
                   roster_count, runs, store0, lastStore, lastFiles>>

\* the connection is opened before the inputs are read
CheckInputs_openFirst ==
    /\ pc = "check"
    /\ IF ~files.receiving.exists THEN
           /\ Raise([type |-> "FileNotFoundError", arg |-> receiving_csv])
           /\ UNCHANGED <<out, steps, conn>>
       ELSE IF ~files.roster.exists THEN
           /\ Raise([type |-> "FileNotFoundError", arg |-> roster_csv])
           /\ UNCHANGED <<out, steps, conn>>
       ELSE
           /\ pc' = "parse_receiving"
           /\ out' = Append(out, "Reading CSV files...")
           /\ steps' = Append(steps, "validate")
           /\ conn' = "open"
           /\ UNCHANGED err
    /\ UNCHANGED <<files, store, receiving_df, roster_df, receiving_count,
                   roster_count, runs, store0, lastStore, lastFiles>>

\* lines 20-26: both inputs are checked before anything is read
CheckInputs ==
    /\ pc = "check"
    /\ IF ~files.receiving.exists THEN
           /\ Raise([type |-> "FileNotFoundError", arg |-> receiving_csv])
           /\ UNCHANGED <<out, steps>>
       ELSE IF ~files.roster.exists THEN
           /\ Raise([type |-> "FileNotFoundError", arg |-> roster_csv])
           /\ UNCHANGED <<out, steps>>
       ELSE
           /\ pc' = "parse_receiving"
           /\ out' = Append(out, "Reading CSV files...")
           /\ steps' = Append(steps, "validate")
           /\ UNCHANGED err
    /\ UNCHANGED <<files, store, receiving_df, roster_df, conn, receiving_count,
                   roster_count, runs, store0, lastStore, lastFiles>>

\* lines 29-30
ParseReceiving ==
    /\ pc = "parse_receiving"
    /\ out' = Append(out, "Processing receiving.csv...")
    /\ receiving_df' = read_csv(files.receiving)
    /\ steps' = Append(steps, "parse receiving")
    /\ pc' = "coerce_receiving"
    /\ UNCHANGED <<files, store, roster_df, conn, receiving_count, roster_count,
                   err, runs, store0, lastStore, lastFiles>>

\* lines 34-47: the seven casts, then the shape and dtypes are printed
CoerceReceiving ==
    /\ pc = "coerce_receiving"
    /\ LET r == AstypeAll(receiving_df, ReceivingIntCols) IN
       /\ receiving_df' = r.df
       /\ IF r.ok THEN
              /\ out' = Append(out, "Receiving data shape")
              /\ steps' = Append(steps, "coerce receiving")
              /\ pc' = "parse_roster"
              /\ UNCHANGED err
          ELSE
              /\ Raise(r.exc)
              /\ UNCHANGED <<out, steps>>
    /\ UNCHANGED <<files, store, roster_df, conn, receiving_count, roster_count,
                   runs, store0, lastStore, lastFiles>>

\* lines 50-51
ParseRoster ==
    /\ pc = "parse_roster"
    /\ out' = Append(out, "Processing roster.csv...")
    /\ roster_df' = read_csv(files.roster)
    /\ steps' = Append(steps, "parse roster")
    /\ pc' = "coerce_roster"
    /\ UNCHANGED <<files, store, receiving_df, conn, receiving_count, roster_count,
                   err, runs, store0, lastStore, lastFiles>>

\* lines 54-63
CoerceRoster ==
    /\ pc = "coerce_roster"
    /\ LET r == AstypeAll(roster_df, RosterIntCols) IN
       /\ roster_df' = r.df
       /\ IF r.ok THEN
              /\ out' = Append(out, "Roster data shape")
              /\ steps' = Append(steps, "coerce roster")
              /\ pc' = "connect"
              /\ UNCHANGED err
          ELSE
              /\ Raise(r.exc)
              /\ UNCHANGED <<out, steps>>
    /\ UNCHANGED <<files, store, receiving_df, conn, receiving_count, roster_count,
                   runs, store0, lastStore, lastFiles>>

\* lines 66-67: sqlite3.connect succeeds
Connect ==
    /\ pc = "connect"
    /\ out' = Append(out, "Creating SQLite database")
    /\ conn' = "open"
    /\ steps' = Append(steps, "open")
    /\ pc' = "write_receiving"
    /\ UNCHANGED <<files, store, receiving_df, roster_df, receiving_count,
                   roster_count, err, runs, store0, lastStore, lastFiles>>

\* lines 66-67: sqlite3.connect raises (it is outside the try block)
ConnectFail ==
    /\ pc = "connect"
    /\ out' = Append(out, "Creating SQLite database")
    /\ Raise([type |-> "sqlite3.Error", arg |-> db_path])
    /\ UNCHANGED <<files, store, receiving_df, roster_df, conn, receiving_count,
                   roster_count, steps, runs, store0, lastStore, lastFiles>>

\* no finally clause: the connection is left open
ExceptFinally_noClose(printed, exc) ==
    /\ out' = Append(printed, "Error creating database")
    /\ UNCHANGED <<conn, steps>>
    /\ Raise(exc)

\* no except clause: the error is not printed
ExceptFinally_noPrint(printed, exc) ==
    /\ out' = printed
    /\ conn' = "closed"
    /\ steps' = Append(steps, "close")
    /\ Raise(exc)

\* lines 115-119: the except clause prints the error, the finally clause
\* closes the connection, and the error is raised again
ExceptFinally(printed, exc) ==
    /\ out' = Append(printed, "Error creating database")
    /\ conn' = "closed"
    /\ steps' = Append(steps, "close")
    /\ Raise(exc)

\* lines 71-72
WriteReceiving ==
    /\ pc = "write_receiving"
    /\ out' = Append(out, "Creating receiving table...")
    /\ store' = [store EXCEPT !.receiving = to_sql(receiving_df, store.receiving)]
    /\ steps' = Append(steps, "write receiving")
    /\ pc' = "write_roster"
    /\ UNCHANGED <<files, receiving_df, roster_df, conn, receiving_count,
                   roster_count, err, runs, store0, lastStore, lastFiles>>

\* lines 71-72 and 115-119: the write of receiving raises
WriteReceivingFail ==
    /\ pc = "write_receiving"
    /\ \E t \in to_sql_failed(receiving_df, store.receiving) :
           store' = [store EXCEPT !.receiving = t]
    /\ ExceptFinally(Append(out, "Creating receiving table..."),
                     [type |-> "sqlite3.Error", arg |-> "receiving"])
    /\ UNCHANGED <<files, receiving_df, roster_df, receiving_count, roster_count,
                   runs, store0, lastStore, lastFiles>>

\* lines 75-76
WriteRoster ==
    /\ pc = "write_roster"
    /\ out' = Append(out, "Creating roster table...")
    /\ store' = [store EXCEPT !.roster = to_sql(roster_df, store.roster)]
    /\ steps' = Append(steps, "write roster")
    /\ pc' = "verify"
    /\ UNCHANGED <<files, receiving_df, roster_df, conn, receiving_count,
                   roster_count, err, runs, store0, lastStore, lastFiles>>

\* one transaction over both tables: a failed write of roster rolls the
\* write of receiving back
WriteRosterFail_rollbackAll ==
    /\ pc = "write_roster"
    /\ store' = store0
    /\ out' = Append(Append(out, "Creating roster table..."), "Error creating database")
    /\ conn' = "closed"
    /\ steps' = Append(steps, "close")
    /\ Raise([type |-> "sqlite3.Error", arg |-> "roster"])
    /\ UNCHANGED <<files, receiving_df, roster_df, receiving_count, roster_count,
                   runs, store0, lastStore, lastFiles>>

\* lines 75-76 and 115-119: the write of roster raises
WriteRosterFail ==
    /\ pc = "write_roster"
    /\ \E t \in to_sql_failed(roster_df, store.roster) :
           store' = [store EXCEPT !.roster = t]
    /\ ExceptFinally(Append(out, "Creating roster table..."),
                     [type |-> "sqlite3.Error", arg |-> "roster"])
    /\ UNCHANGED <<files, receiving_df, roster_df, receiving_count, roster_count,
                   runs, store0, lastStore, lastFiles>>

\* SELECT COUNT(*) FROM t
SelectCount(t) == Len(t.rows)

\* both counts are read from `receiving`
Verify_sameTable ==
    /\ pc = "verify"
    /\ receiving_count' = Len(store.receiving.rows)
    /\ roster_count' = Len(store.receiving.rows)
    /\ out' = out \o <<"Receiving table created with", "Roster table created with",
                       "Database successfully created">>
    /\ steps' = Append(steps, "verify")
    /\ pc' = "close"
    /\ UNCHANGED <<files, store, receiving_df, roster_df, conn, err, runs,
                   store0, lastStore, lastFiles>>

\* lines 79-113: the counts, schemas and samples are read back and printed
Verify ==
    /\ pc = "verify"
    /\ receiving_count' = SelectCount(store.receiving)
    /\ roster_count' = SelectCount(store.roster)
    /\ out' = out \o <<"Receiving table created with", "Roster table created with",
                       "Database successfully created">>
    /\ steps' = Append(steps, "verify")
    /\ pc' = "close"
    /\ UNCHANGED <<files, store, receiving_df, roster_df, conn, err, runs,
                   store0, lastStore, lastFiles>>

\* lines 79-111 and 115-119: a verification query raises
VerifyFail ==
    /\ pc = "verify"
    /\ ExceptFinally(out, [type |-> "sqlite3.Error", arg |-> "verify"])
    /\ UNCHANGED <<files, store, receiving_df, roster_df, receiving_count,
                   roster_count, runs, store0, lastStore, lastFiles>>

\* lines 118-119: the finally clause on the way out of a run that succeeded
Close ==
    /\ pc = "close"
    /\ conn' = "closed"
    /\ steps' = Append(steps, "close")
    /\ pc' = "done"
    /\ UNCHANGED <<files, store, receiving_df, roster_df, receiving_count,
                   roster_count, out, err, runs, store0, lastStore, lastFiles>>

Terminated == pc \in {"done", "failed"}

\* a new run of the script on the input files fs; the store is what the run
\* before left
StartRun(fs) ==
    /\ Terminated
    /\ runs < MaxRuns
    /\ runs' = runs + 1
    /\ files' = fs
    /\ pc' = "check"
    /\ receiving_df' = NoDF
    /\ roster_df' = NoDF
    /\ conn' = "none"
    /\ receiving_count' = -1
    /\ roster_count' = -1
    /\ out' = <<>>
    /\ err' = NoErr
    /\ steps' = <<>>
    /\ store0' = store
    /\ lastStore' = IF pc = "done" THEN store ELSE lastStore
    /\ lastFiles' = IF pc = "done" THEN files ELSE lastFiles
    /\ UNCHANGED store

\* lines 121-122: the script is run again on unchanged input files
RunAgain == StartRun(files)

\* lines 121-122: an input file is deleted and the script is run again
DeleteAndRunAgain ==
    \E f \in {"receiving", "roster"} :
        /\ files[f].exists
        /\ StartRun([files EXCEPT ![f] = MissingFile])

Next ==
    \/ CheckInputs
    \/ ParseReceiving
    \/ CoerceReceiving
    \/ ParseRoster
    \/ CoerceRoster
    \/ Connect
    \/ ConnectFail
    \/ WriteReceiving
    \/ WriteReceivingFail
    \/ WriteRoster
    \/ WriteRosterFail
    \/ Verify
    \/ VerifyFail
    \/ Close
    \/ RunAgain
    \/ DeleteAndRunAgain

Spec == Init /\ [][Next]_vars

\* ---------------------------------------------------------------- claims
Last(s) == s[Len(s)]
Names(t) == [j \in DOMAIN t.cols |-> t.cols[j].name]
MissingPaths ==
    (IF files.receiving.exists THEN {} ELSE {receiving_csv})
        \cup (IF files.roster.exists THEN {} ELSE {roster_csv})

\* the stored table t holds exactly the columns and the rows of the frame df
HoldsExactly(t, df) ==
    /\ t.exists
    /\ Names(t) = df.cols
    /\ Len(t.rows) = Len(df.rows)
    /\ \A i \in DOMAIN df.rows :
         /\ DOMAIN t.rows[i] = Range(df.cols)
         /\ \A c \in Range(df.cols) : t.rows[i][c] = SqlValue(df.rows[i][c])

\* C1: when Data/receiving.csv or Data/roster.csv does not exist, the run
\* ends at the existence checks with a FileNotFoundError that names a path
\* that does not exist (the only missing one when one is missing); no CSV has
\* been parsed, the connection was never opened and the store is as it was
\* when the run started.
C1_MissingInputFailsFirst ==
    (MissingPaths # {} /\ pc # "check") =>
        /\ pc = "failed"
        /\ err.type = "FileNotFoundError"
        /\ err.arg \in MissingPaths
        /\ receiving_df = NoDF
        /\ roster_df = NoDF
        /\ conn = "none"
        /\ steps = <<>>
        /\ store = store0

C1_Witness ==
    /\ pc = "failed"
    /\ files.receiving.exists
    /\ ~files.roster.exists
    /\ err = [type |-> "FileNotFoundError", arg |-> roster_csv]
    /\ store.receiving.exists

\* C2: once the connection has been opened it is closed on every exit path:
\* it is open only while the run is between connect and close, and no run
\* ends with it open, whether it succeeded or a write or a verification
\* query failed.
C2_ConnectionClosedOnExit ==
    /\ conn = "open" => pc \in {"write_receiving", "write_roster", "verify", "close"}
    /\ Terminated => conn # "open"
    /\ (Terminated /\ "open" \in Range(steps)) => (conn = "closed" /\ Last(steps) = "close")

C2_Witness ==
    /\ pc = "failed"
    /\ conn = "closed"
    /\ err = [type |-> "sqlite3.Error", arg |-> "roster"]

\* C3: after a run that succeeded, whatever the store held before, each of
\* the two tables holds exactly the columns and the rows of the frame that
\* was just loaded: the header of the input file, as many rows as the file,
\* and nothing of the table it replaced.
C3_ReplaceSemantics ==
    pc = "done" =>
        /\ HoldsExactly(store.receiving, receiving_df)
        /\ HoldsExactly(store.roster, roster_df)
        /\ Names(store.receiving) = files.receiving.cols
        /\ Names(store.roster) = files.roster.cols
        /\ Len(store.receiving.rows) = Len(files.receiving.rows)
        /\ Len(store.roster.rows) = Len(files.roster.rows)

C3_Witness ==
    /\ pc = "done"
    /\ store0.receiving.exists
    /\ Names(store0.receiving) # Names(store.receiving)
    /\ Len(store0.receiving.rows) > Len(store.receiving.rows)
    /\ Len(store.receiving.rows) > 0

\* C4: when a run succeeds on the input files of the last run that
\* succeeded, the store it leaves equals the store that run left: same
\* schemas, same row counts, same contents.
C4_Idempotent ==
    (pc = "done" /\ lastFiles # NoFiles /\ lastFiles = files) => store = lastStore

C4_Witness ==
    /\ pc = "done"
    /\ runs >= 2
    /\ lastFiles = files
    /\ Len(store.receiving.rows) > 0
    /\ Len(store.roster.rows) > 0

\* C8: after the verification of a run that succeeded, the row count read
\* back for `receiving` equals the number of rows of Data/receiving.csv and
\* the row count read back for `roster` equals the number of rows of
\* Data/roster.csv.
C8_RoundTripRowCount ==
    pc \in {"close", "done"} =>
        /\ receiving_count = Len(files.receiving.rows)
        /\ roster_count = Len(files.roster.rows)

C8_Witness ==
    /\ pc = "done"
    /\ receiving_count > 0
    /\ roster_count > 0
    /\ receiving_count # roster_count
    /\ store0.receiving.exists
    /\ Len(store0.receiving.rows) # receiving_count

\* the function itself printed an error message as the last line of the run
ErrorPrinted == out # <<>> /\ Last(out) = "Error creating database"

\* C5 (as stated): every run that fails has printed a one-line error message
\* naming the failure before the error propagates.
C5_EveryFailurePrinted ==
    pc = "failed" => ErrorPrinted

\* C5 (amended): a run that fails in a table write or in a verification
\* query prints the error message and closes the connection before the error
\* propagates; a run that fails on a missing input file, in a cast or in
\* opening the store propagates the error without printing a message.
C5_OnlyStoreFailuresPrinted ==
    pc = "failed" =>
        /\ ErrorPrinted <=> "open" \in Range(steps)
        /\ ErrorPrinted <=> (err.type = "sqlite3.Error" /\ err.arg \in {"receiving", "roster", "verify"})
        /\ err.type \in {"FileNotFoundError", "ValueError", "KeyError"} => ~ErrorPrinted

C5_Witness ==
    /\ pc = "failed"
    /\ ErrorPrinted
    /\ err = [type |-> "sqlite3.Error", arg |-> "receiving"]

\* the run failed while it processed roster, after receiving was processed
RosterFailedAfterReceiving ==
    /\ pc = "failed"
    /\ "coerce receiving" \in Range(steps)
    /\ \/ "parse roster" \in Range(steps) /\ "coerce roster" \notin Range(steps)
       \/ err = [type |-> "sqlite3.Error", arg |-> "roster"]

\* C6 (as stated): when roster processing fails after receiving succeeded,
\* the `receiving` table of this run is committed in the store.
C6_ReceivingKeptOnRosterFailure ==
    RosterFailedAfterReceiving => HoldsExactly(store.receiving, receiving_df)

\* C6 (amended): when the write of roster fails after the write of receiving
\* succeeded, the `receiving` table of this run stays committed in the store;
\* when the parse or a cast of roster fails, nothing of this run is in the
\* store, which is as it was when the run started.
C6_ReceivingKeptOnRosterWriteFailure ==
    /\ (pc = "failed" /\ err = [type |-> "sqlite3.Error", arg |-> "roster"]) =>
           /\ HoldsExactly(store.receiving, receiving_df)
           /\ Len(store.receiving.rows) = Len(files.receiving.rows)
    /\ (RosterFailedAfterReceiving /\ "coerce roster" \notin Range(steps)) =>
           store = store0

C6_Witness ==
    /\ pc = "failed"
    /\ err = [type |-> "sqlite3.Error", arg |-> "roster"]
    /\ Len(store.receiving.rows) > 0
    /\ store.receiving # store0.receiving
    /\ store.roster # TableOf(roster_df)

\* the tokens of the integer-mapped columns cs of the file f
MappedTokens(f, cs) ==
    { f.rows[i][c] : i \in DOMAIN f.rows, c \in Range(cs) \cap Range(f.cols) }

WholeNumber(tok) == tok.k = "int" \/ (tok.k = "dec" /\ tok.v % 2 = 0)

\* the integer-mapped columns cs of the stored table t hold whole numbers only
StoredWhole(t, cs) ==
    /\ \A j \in DOMAIN t.cols : t.cols[j].name \in Range(cs) => t.cols[j].type = "INTEGER"
    /\ \A i \in DOMAIN t.rows : \A c \in Range(cs) : t.rows[i][c].t = "int"

FrameWhole(df, cs) ==
    /\ \A c \in Range(cs) : c \in Range(df.cols) /\ df.dtypes[c] = "int64"
    /\ \A i \in DOMAIN df.rows : \A c \in Range(cs) : df.rows[i][c].t = "int"

\* C7 (as stated): a run gets past the casts of a table only when every
\* value of its integer-mapped columns is a whole number; a missing value or
\* a value that is not a whole number ends the run with a coercion error.
C7_FailFastOnNonWhole ==
    /\ "coerce receiving" \in Range(steps) =>
           \A tok \in MappedTokens(files.receiving, ReceivingIntCols) : WholeNumber(tok)
    /\ "coerce roster" \in Range(steps) =>
           \A tok \in MappedTokens(files.roster, RosterIntCols) : WholeNumber(tok)

\* the value the casts leave in the store for a token they accept
StoredInt(tok) == IF tok.k = "dec" THEN TruncHalves(tok.v) ELSE tok.v

\* C7 (amended): a missing value or non-numeric text in an integer-mapped
\* column ends the run with an error raised by the cast (ValueError) before
\* the store is opened, and nothing is stored; a number with a fractional
\* part does not end the run but is stored truncated toward zero, and a
\* column of booleans is stored as 0 and 1; in every run that reaches the
\* store the integer-mapped columns of both frames, and of each table once
\* written, hold whole numbers only, with no missing entry.
C7_FailFastOnMissingOrText ==
    /\ (\E tok \in MappedTokens(files.receiving, ReceivingIntCols) \cup
                   MappedTokens(files.roster, RosterIntCols) : tok.k \in {"na", "text"}) =>
           /\ conn = "none"
           /\ store = store0
           /\ "coerce roster" \notin Range(steps)
           /\ pc \in {"check", "parse_receiving", "coerce_receiving", "parse_roster",
                      "coerce_roster", "failed"}
           /\ (pc = "failed" /\ Range(ReceivingIntCols) \subseteq Range(files.receiving.cols)
                 /\ Range(RosterIntCols) \subseteq Range(files.roster.cols))
                 => err.type = "ValueError"
    /\ "open" \in Range(steps) =>
           /\ FrameWhole(receiving_df, ReceivingIntCols)
           /\ FrameWhole(roster_df, RosterIntCols)
    /\ "write receiving" \in Range(steps) => StoredWhole(store.receiving, ReceivingIntCols)
    /\ "write roster" \in Range(steps) => StoredWhole(store.roster, RosterIntCols)
    /\ pc = "done" =>
           /\ \A i \in DOMAIN files.receiving.rows : \A c \in Range(ReceivingIntCols) :
                  store.receiving.rows[i][c].v = StoredInt(files.receiving.rows[i][c])
           /\ \A i \in DOMAIN files.roster.rows : \A c \in Range(RosterIntCols) :
                  store.roster.rows[i][c].v = StoredInt(files.roster.rows[i][c])

C7_Witness ==
    /\ pc = "done"
    /\ \E i \in DOMAIN files.receiving.rows : \E c \in Range(ReceivingIntCols) :
         /\ files.receiving.rows[i][c] = Tok("dec", -3)
         /\ store.receiving.rows[i][c] = Val("int", -1, "")

\* the frame df has the shape of the file f, and its columns outside cs are
\* as read_csv loaded them
Untouched(df, f, cs) ==
    /\ df.cols = f.cols
    /\ DOMAIN df.dtypes = Range(f.cols)
    /\ Len(df.rows) = Len(f.rows)
    /\ \A c \in Range(f.cols) \ Range(cs) :
         /\ df.dtypes[c] = read_csv(f).dtypes[c]
         /\ \A i \in DOMAIN f.rows : df.rows[i][c] = read_csv(f).rows[i][c]
    /\ \A i \in DOMAIN f.rows : DOMAIN df.rows[i] = Range(f.cols)

\* the unmapped columns of the stored table t keep the missing cells of the
\* file f missing and its text as text
StoredAsLoaded(t, f, cs) ==
    /\ Names(t) = f.cols
    /\ Len(t.rows) = Len(f.rows)
    /\ \A c \in Range(f.cols) \ Range(cs) : \A i \in DOMAIN f.rows :
         /\ f.rows[i][c].k = "na" <=> t.rows[i][c].t = "null"
         /\ f.rows[i][c].k = "text" => t.rows[i][c] = Val("text", f.rows[i][c].v, "text")

\* C9: the casts change only the mapped columns: once a frame is cast it has
\* the rows, the columns and the column order of the loaded file, and every
\* unmapped column has the dtype and the values it was loaded with; in the
\* stored tables a missing AVG, AVG/G or weight is NULL, not zero, and a
\* height that is text is stored as text.
C9_CoercionFrame ==
    /\ "coerce receiving" \in Range(steps) =>
           Untouched(receiving_df, files.receiving, ReceivingIntCols)
    /\ "coerce roster" \in Range(steps) =>
           Untouched(roster_df, files.roster, RosterIntCols)
    /\ pc = "done" =>
           /\ StoredAsLoaded(store.receiving, files.receiving, ReceivingIntCols)
           /\ StoredAsLoaded(store.roster, files.roster, RosterIntCols)

C9_Witness ==
    /\ pc = "done"
    /\ \E i \in DOMAIN files.receiving.rows :
         /\ files.receiving.rows[i]["AVG"].k = "na"
         /\ files.receiving.rows[i]["AVG/G"].k = "na"
         /\ store.receiving.rows[i]["AVG"].t = "null"
         /\ store.receiving.rows[i]["NO"] = Val("int", 0, "")
    /\ \E i \in DOMAIN files.roster.rows :
         /\ files.roster.rows[i]["weight"].k = "na"
         /\ store.roster.rows[i]["height"].t = "text"

\* the order of the steps of a run
StepOrder ==
    <<"validate", "parse receiving", "coerce receiving", "parse roster",
      "coerce roster", "open", "write receiving", "write roster", "verify", "close">>

IsPrefix(s, t) == Len(s) <= Len(t) /\ \A i \in DOMAIN s : s[i] = t[i]

\* C10: the steps a run has completed are a prefix of the fixed order
\* validate, parse receiving, coerce receiving, parse roster, coerce roster,
\* open, write receiving, write roster, verify, close (a run that fails
\* after the open skips to close); each frame is loaded only after the
\* validation, the connection is opened and the store written only after
\* both frames have been parsed and cast.
C10_FixedOrder ==
    /\ \/ IsPrefix(steps, StepOrder)
       \/ /\ pc = "failed"
          /\ Last(steps) = "close"
          /\ IsPrefix(SubSeq(steps, 1, Len(steps) - 1), StepOrder)
          /\ "open" \in Range(steps)
    /\ receiving_df.loaded => "validate" \in Range(steps)
    /\ roster_df.loaded => "coerce receiving" \in Range(steps)
    /\ conn # "none" =>
           /\ "coerce roster" \in Range(steps)
           /\ FrameWhole(receiving_df, ReceivingIntCols)
           /\ FrameWhole(roster_df, RosterIntCols)
    /\ store # store0 => conn # "none"
    /\ receiving_count # -1 => "write roster" \in Range(steps)
    /\ pc = "done" => steps = StepOrder

C10_Witness ==
    /\ pc = "done"
    /\ steps = StepOrder
    /\ store # store0

====
